---- MODULE Spec2Model ----
(***************************************************************************)
(* Model of scripts/convert_notebooks.py: the driver                       *)
(* convert_notebooks_to_html, the renderer extract_html_from_notebook and  *)
(* the hierarchy extractor html_to_hierarchical_json.                      *)
(*                                                                         *)
(* Text is a sequence of one-character strings.  A markup string built by  *)
(* the renderer from a fixed template is a record (a "block") naming the   *)
(* template (kind) and holding the interpolated text; html_output is the   *)
(* list of blocks that line 232 joins with newlines.                       *)
(***************************************************************************)
EXTENDS Integers, Sequences, FiniteSets, TLC

VARIABLES
    listing,            \* os.listdir(input_folder): the files, in listing order
    use_base64,         \* parameter of convert_notebooks_to_html / extract_html_from_notebook
    write_html,         \* parameter of convert_notebooks_to_html
    fi,                 \* position of the driver's loop in listing (0: called without the driver)
    pc,                 \* the program's position
    disk,               \* files and directories written so far
    executed,           \* file names execute_notebook has returned for
    notebook,           \* notebook["cells"] of the notebook being rendered
    filename,           \* the filename argument (its stem)
    ci,                 \* position of the cell loop (line 80)
    oi,                 \* position of the output loop (line 92)
    html_output,        \* local html_output of extract_html_from_notebook
    aggregated_output,  \* local aggregated_output, as its appended pieces
    fig_id,             \* local fig_id
    soup,               \* BeautifulSoup(html): the elements in document order
    tags,               \* soup.find_all(h[1-6]): positions in soup
    ti,                 \* position of the heading loop (line 41)
    hierarchy,          \* hierarchy[filename]: title -> section
    sections,           \* the section dicts created so far, by creation order
    stack               \* local stack of html_to_hierarchical_json

vars == <<listing, use_base64, write_html, fi, pc, disk, executed, notebook,
          filename, ci, oi, html_output, aggregated_output, fig_id, soup, tags,
          ti, hierarchy, sections, stack>>

driverVars == <<listing, use_base64, write_html, fi, executed>>
renderVars == <<notebook, filename, ci, oi, html_output, aggregated_output, fig_id>>
jsonVars   == <<soup, tags, ti, hierarchy, sections, stack>>

----------------------------------------------------------------------------
(* Bounds of the model.                                                    *)

MaxOutputs == 3      \* outputs of the code cell of a one-cell notebook
MaxCells == 3        \* cells of a notebook of short cells
MaxMdLen == 4        \* characters of a markdown source
MaxElems == 4        \* elements of a document handed to the extractor
MaxFiles == 3        \* files of a directory of small notebooks
MaxTitleLen == 2     \* characters of a heading title
MaxImages == 6       \* images of one code cell of an image notebook
MaxFigCells == 2     \* cells of an image notebook

----------------------------------------------------------------------------
(* Strings.                                                                *)

RECURSIVE Concat(_)
Concat(ss) == IF ss = <<>> THEN <<>> ELSE Head(ss) \o Concat(Tail(ss))

\* str.replace(old, new) for a one-character old
RECURSIVE replace(_, _, _)
replace(s, old, new) ==
    IF s = <<>> THEN <<>>
    ELSE (IF Head(s) = old THEN new ELSE <<Head(s)>>) \o replace(Tail(s), old, new)

\* html.escape(s, quote=True)
escape(s) ==
    LET s1 == replace(s, "&", <<"&", "a", "m", "p", ";">>)
        s2 == replace(s1, "<", <<"&", "l", "t", ";">>)
        s3 == replace(s2, ">", <<"&", "g", "t", ";">>)
        s4 == replace(s3, "\"", <<"&", "q", "u", "o", "t", ";">>)
    IN  replace(s4, "'", <<"&", "#", "x", "2", "7", ";">>)

IsSpace(c) == c \in {" ", "\n", "\t"}

RECURSIVE lstrip(_)
lstrip(s) == IF s # <<>> /\ IsSpace(Head(s)) THEN lstrip(Tail(s)) ELSE s

RECURSIVE rstrip(_)
rstrip(s) ==
    IF s # <<>> /\ IsSpace(s[Len(s)]) THEN rstrip(SubSeq(s, 1, Len(s) - 1)) ELSE s

\* str.strip()
strip(s) == rstrip(lstrip(s))

\* str.splitlines(): the lines, without their line ends; no empty last line
RECURSIVE splitlines(_)
splitlines(s) ==
    IF s = <<>> THEN <<>>
    ELSE IF \E i \in 1..Len(s) : s[i] = "\n"
         THEN LET i == CHOOSE k \in 1..Len(s) :
                           s[k] = "\n" /\ \A j \in 1..(k - 1) : s[j] # "\n"
              IN  <<SubSeq(s, 1, i - 1)>> \o splitlines(SubSeq(s, i + 1, Len(s)))
         ELSE <<s>>

\* str.count(c) for a one-character c
RECURSIVE count(_, _)
count(s, c) ==
    IF s = <<>> THEN 0 ELSE (IF Head(s) = c THEN 1 ELSE 0) + count(Tail(s), c)

\* the positions where the separator "# " starts
SepPositions(s) == {i \in 1..(Len(s) - 1) : s[i] = "#" /\ s[i + 1] = " "}

Max(S) == CHOOSE x \in S : \A y \in S : y <= x
Min(S) == CHOOSE x \in S : \A y \in S : x <= y

\* s.split("# ")[-1]: what follows the last separator, or s when there is none
split_last(s) ==
    IF SepPositions(s) = {} THEN s
    ELSE SubSeq(s, Max(SepPositions(s)) + 2, Len(s))

\* "\n".join(lines)
RECURSIVE join(_)
join(lines) ==
    IF lines = <<>> THEN <<>>
    ELSE IF Len(lines) = 1 THEN Head(lines)
    ELSE Head(lines) \o <<"\n">> \o join(Tail(lines))

\* str(n) as decimal digits
RECURSIVE Digits(_)
Digits(n) == IF n < 10 THEN <<n>> ELSE Digits(n \div 10) \o <<n % 10>>

\* the strings over alphabet A of length lo..hi
Strings(A, lo, hi) == UNION {[1..n -> A] : n \in lo..hi}

----------------------------------------------------------------------------
(* Notebook documents (nbformat 4): cells and outputs.  A field an output  *)
(* does not carry holds the default that output.get(...) returns for it.   *)

NoData == [m \in {} |-> <<>>]

DataOutput(data) ==
    [output_type |-> "execute_result", name |-> "", text |-> <<>>,
     data |-> data, traceback |-> <<>>]

StreamOutput(name, text) ==
    [output_type |-> "stream", name |-> name, text |-> text,
     data |-> NoData, traceback |-> <<>>]

ErrorOutput(traceback) ==
    [output_type |-> "error", name |-> "", text |-> <<>>,
     data |-> NoData, traceback |-> traceback]

CodeCell(source, outputs) ==
    [cell_type |-> "code", source |-> source, outputs |-> outputs]

MarkdownCell(source) ==
    [cell_type |-> "markdown", source |-> source, outputs |-> <<>>]

PngData == <<"i", "V", "B">>

PngOutput == DataOutput("image/png" :> PngData)

----------------------------------------------------------------------------
(* The renderer's templates.                                               *)

Block(kind, text) ==
    [kind |-> kind, text |-> text, level |-> 0, folder |-> 0, file |-> <<>>,
     entries |-> <<>>, cell |-> 0, out |-> 0]

\* the string aggregated_output: each piece is "\n\t\t" and the escaped text
RECURSIVE AggregatedString(_)
AggregatedString(agg) ==
    IF agg = <<>> THEN <<>>
    ELSE <<"\n", "\t", "\t">> \o Head(agg).text \o AggregatedString(Tail(agg))

CodeBlock(source, c) == [Block("code-cell", source) EXCEPT !.cell = c]

OutBlock(agg, c) ==
    [Block("output-text", AggregatedString(agg)) EXCEPT !.entries = agg, !.cell = c]

Base64ImgBlock(img_data, c, o) ==
    [Block("output-img-base64", img_data) EXCEPT !.cell = c, !.out = o]

FileImgBlock(output_folder, img_filename, c, o) ==
    [Block("output-img-file", <<>>) EXCEPT
        !.folder = output_folder, !.file = img_filename, !.cell = c, !.out = o]

ErrorBlock(error_message, c, o) ==
    [Block("output-error", error_message) EXCEPT !.cell = c, !.out = o]

HeadingBlock(header_level, markdown_content, c) ==
    [Block("markdown-heading", markdown_content) EXCEPT
        !.level = header_level, !.cell = c]

MarkdownBlock(markdown_content, c) ==
    [Block("markdown", markdown_content) EXCEPT !.cell = c]

DiskFile(kind, stem, file) == [kind |-> kind, stem |-> stem, file |-> file]

----------------------------------------------------------------------------
(* extract_html_from_notebook, lines 66-234.  The handlers of one output   *)
(* act on the locals L = [html_output, aggregated_output, fig_id, disk].   *)

\* lines 94-101
HandlePlain(L, output, c, o) ==
    IF "text/plain" \in DOMAIN output.data
    THEN [L EXCEPT !.aggregated_output =
             Append(@, [text |-> escape(output.data["text/plain"]),
                        cell |-> c, out |-> o])]
    ELSE L

\* lines 104-110
HandleStdout(L, output, c, o) ==
    IF output.output_type = "stream" /\ output.name = "stdout"
    THEN [L EXCEPT !.aggregated_output =
             Append(@, [text |-> escape(output.text), cell |-> c, out |-> o])]
    ELSE L

\* lines 116-127
FlushBeforeImage(L, c) ==
    IF AggregatedString(L.aggregated_output) # <<>>
    THEN [L EXCEPT !.html_output = Append(@, OutBlock(L.aggregated_output, c)),
                   !.aggregated_output = <<>>]
    ELSE L

\* padding that stops below the 10th image
ImgFilename_Below10(id) == IF id < 10 THEN <<0>> \o Digits(id) ELSE Digits(id)

\* lines 142-145
ImgFilename(id) == IF id <= 10 THEN <<0>> \o Digits(id) ELSE Digits(id)

\* lines 131-165
EmitImage(L, img_data, fname, b64, c, o) ==
    IF b64
    THEN [L EXCEPT !.html_output = Append(@, Base64ImgBlock(img_data, c, o))]
    ELSE LET id == L.fig_id + 1
             img_filename == ImgFilename(id)
         IN  [L EXCEPT
                 !.fig_id = id,
                 !.disk = @ \cup {DiskFile("dir", fname, <<>>),
                                  DiskFile("png", fname, img_filename)},
                 !.html_output = Append(@, FileImgBlock(fname, img_filename, c, o))]

\* lines 114-165
HandleImage(L, output, fname, b64, c, o) ==
    IF "image/png" \in DOMAIN output.data
    THEN EmitImage(FlushBeforeImage(L, c), output.data["image/png"], fname, b64, c, o)
    ELSE L

\* an error handler that flushes the pending text before its block
HandleError_Flushing(L, output, c, o) ==
    IF output.output_type = "error"
    THEN LET F == IF AggregatedString(L.aggregated_output) # <<>>
                  THEN [L EXCEPT
                           !.html_output = Append(@, OutBlock(L.aggregated_output, c)),
                           !.aggregated_output = <<>>]
                  ELSE L
         IN  [F EXCEPT !.html_output =
                 Append(@, ErrorBlock(join(output.traceback), c, o))]
    ELSE L

\* lines 168-176
HandleError(L, output, c, o) ==
    IF output.output_type = "error"
    THEN [L EXCEPT !.html_output = Append(@, ErrorBlock(join(output.traceback), c, o))]
    ELSE L

\* lines 92-176: the body of the output loop for one output
HandleOutput(L, output, fname, b64, c, o) ==
    HandleError(
        HandleImage(
            HandleStdout(HandlePlain(L, output, c, o), output, c, o),
            output, fname, b64, c, o),
        output, c, o)

\* a final flush that forgets to reset the buffer (line 191)
FlushAfterOutputs_NoReset(L, c) ==
    IF AggregatedString(L.aggregated_output) # <<>>
    THEN [L EXCEPT !.html_output = Append(@, OutBlock(L.aggregated_output, c))]
    ELSE L

\* lines 180-191
FlushAfterOutputs(L, c) ==
    IF AggregatedString(L.aggregated_output) # <<>>
    THEN [L EXCEPT !.html_output = Append(@, OutBlock(L.aggregated_output, c)),
                   !.aggregated_output = <<>>]
    ELSE L

\* lines 205-208
ContentLines(markdown_content) ==
    LET ls == splitlines(markdown_content)
    IN  SelectSeq([i \in 1..Len(ls) |-> strip(ls[i])], LAMBDA l : l # <<>>)

\* line 211
IsHeaderCell(markdown_content) ==
    LET lines == ContentLines(markdown_content)
    IN  Len(lines) = 1 /\ lines[1][1] = "#"

\* line 213
HeaderLevel(markdown_content) == count(markdown_content, "#")

\* line 214
HeaderText(markdown_content) == split_last(markdown_content)

\* lines 193-230
RenderMarkdown(source, c) ==
    LET markdown_content == escape(source)
    IN  IF IsHeaderCell(markdown_content)
        THEN HeadingBlock(HeaderLevel(markdown_content),
                          HeaderText(markdown_content), c)
        ELSE MarkdownBlock(markdown_content, c)

Locals == [html_output |-> html_output, aggregated_output |-> aggregated_output,
           fig_id |-> fig_id, disk |-> disk]

\* lines 75-78
ExtractEntry ==
    /\ pc = "call_extract"
    /\ html_output' = <<>>
    /\ fig_id' = 0
    /\ aggregated_output' = <<>>
    /\ ci' = 0
    /\ oi' = 0
    /\ pc' = "r_cell"
    /\ UNCHANGED <<notebook, filename, disk>>
    /\ UNCHANGED driverVars
    /\ UNCHANGED jsonVars

\* lines 80-89
RenderCodeCell ==
    /\ pc = "r_cell"
    /\ ci < Len(notebook)
    /\ notebook[ci + 1].cell_type = "code"
    /\ ci' = ci + 1
    /\ oi' = 0
    /\ html_output' = Append(html_output, CodeBlock(notebook[ci + 1].source, ci + 1))
    /\ pc' = "r_output"
    /\ UNCHANGED <<notebook, filename, aggregated_output, fig_id, disk>>
    /\ UNCHANGED driverVars
    /\ UNCHANGED jsonVars

\* lines 92-176
RenderOutput ==
    /\ pc = "r_output"
    /\ oi < Len(notebook[ci].outputs)
    /\ LET L == HandleOutput(Locals, notebook[ci].outputs[oi + 1], filename,
                             use_base64, ci, oi + 1)
       IN  /\ html_output' = L.html_output
           /\ aggregated_output' = L.aggregated_output
           /\ fig_id' = L.fig_id
           /\ disk' = L.disk
    /\ oi' = oi + 1
    /\ UNCHANGED <<notebook, filename, ci, pc>>
    /\ UNCHANGED driverVars
    /\ UNCHANGED jsonVars

\* lines 178-191
RenderOutputsEnd ==
    /\ pc = "r_output"
    /\ oi = Len(notebook[ci].outputs)
    /\ LET L == FlushAfterOutputs(Locals, ci)
       IN  /\ html_output' = L.html_output
           /\ aggregated_output' = L.aggregated_output
    /\ pc' = "r_cell"
    /\ UNCHANGED <<notebook, filename, ci, oi, fig_id, disk>>
    /\ UNCHANGED driverVars
    /\ UNCHANGED jsonVars

\* lines 80, 193-230
RenderMarkdownCell ==
    /\ pc = "r_cell"
    /\ ci < Len(notebook)
    /\ notebook[ci + 1].cell_type = "markdown"
    /\ ci' = ci + 1
    /\ html_output' = Append(html_output, RenderMarkdown(notebook[ci + 1].source, ci + 1))
    /\ UNCHANGED <<notebook, filename, oi, aggregated_output, fig_id, disk, pc>>
    /\ UNCHANGED driverVars
    /\ UNCHANGED jsonVars

\* lines 232-234: the loop is over; the joined markup is returned
ExtractReturn ==
    /\ pc = "r_cell"
    /\ ci = Len(notebook)
    /\ pc' = IF fi = 0 THEN "done" ELSE "write_html"
    /\ UNCHANGED disk
    /\ UNCHANGED renderVars
    /\ UNCHANGED driverVars
    /\ UNCHANGED jsonVars

NextRender ==
    \/ ExtractEntry
    \/ RenderCodeCell
    \/ RenderOutput
    \/ RenderOutputsEnd
    \/ RenderMarkdownCell
    \/ ExtractReturn

----------------------------------------------------------------------------
(* Inputs of a direct call of extract_html_from_notebook.                  *)

RenderOutputs ==
    {DataOutput("text/plain" :> <<>>),
     DataOutput("text/plain" :> <<"a", "<">>),
     PngOutput,
     DataOutput(("text/plain" :> <<"f">>) @@ ("image/png" :> PngData)),
     StreamOutput("stdout", <<"b", ">">>),
     StreamOutput("stderr", <<"w">>),
     ErrorOutput(<<<<"E", "<">>, <<"r">>>>)}

\* one code cell with any outputs
OneCellNotebooks ==
    {<<CodeCell(<<"x", "<", "y">>, outs)>> :
        outs \in UNION {[1..n -> RenderOutputs] : n \in 0..MaxOutputs}}

ShortCells ==
    {MarkdownCell(<<"#", " ", "a">>),
     MarkdownCell(<<"a", ">">>),
     CodeCell(<<"p">>, <<>>),
     CodeCell(<<"q">>, <<DataOutput("text/plain" :> <<>>)>>),
     CodeCell(<<"r">>, <<StreamOutput("stdout", <<"b">>), PngOutput,
                         DataOutput("text/plain" :> <<"c">>)>>),
     CodeCell(<<"s">>, <<DataOutput("text/plain" :> <<"d">>),
                         ErrorOutput(<<<<"E">>>>)>>)}

\* several short cells
ShortCellNotebooks == UNION {[1..n -> ShortCells] : n \in 0..MaxCells}

MdAlphabet == {"#", " ", "a", "\n", "'"}

\* one markdown cell with any source
MarkdownNotebooks ==
    {<<MarkdownCell(s)>> : s \in Strings(MdAlphabet, 0, MaxMdLen)}

RenderNotebooks == OneCellNotebooks \cup ShortCellNotebooks \cup MarkdownNotebooks

InitRender ==
    /\ listing = <<>>
    /\ use_base64 \in BOOLEAN
    /\ write_html = FALSE
    /\ fi = 0
    /\ pc = "call_extract"
    /\ disk = {}
    /\ executed = <<>>
    /\ notebook \in RenderNotebooks
    /\ filename = 1
    /\ ci = 0
    /\ oi = 0
    /\ html_output = <<>>
    /\ aggregated_output = <<>>
    /\ fig_id = 0
    /\ soup = <<>>
    /\ tags = <<>>
    /\ ti = 0
    /\ hierarchy = <<>>
    /\ sections = <<>>
    /\ stack = <<>>

SpecRender == InitRender /\ [][NextRender]_vars

----------------------------------------------------------------------------
(* Properties of extract_html_from_notebook.                               *)

IsImage(output) == "image/png" \in DOMAIN output.data
IsPlain(output) == "text/plain" \in DOMAIN output.data
IsStdout(output) == output.output_type = "stream" /\ output.name = "stdout"
IsError(output) == output.output_type = "error"

OutPositions(h) == {p \in 1..Len(h) : h[p].kind = "output-text"}

\* the kinds of block whose interpolated text is cell text
CellTextKinds ==
    {"code-cell", "output-text", "output-error", "markdown-heading", "markdown"}

HasRawAngle(s) == \E i \in 1..Len(s) : s[i] \in {"<", ">"}

\* C1: no block of the returned markup carries a raw '<' or '>' in the text
\* interpolated from a cell (code source, markdown source, text/plain, stdout
\* text, traceback): such characters appear only escaped.
C1_NoRawAngleFromCells ==
    \A p \in 1..Len(html_output) :
        html_output[p].kind \in CellTextKinds => ~HasRawAngle(html_output[p].text)

\* what follows the first separator "# ", or s when there is none
after_first(s) ==
    IF SepPositions(s) = {} THEN s
    ELSE SubSeq(s, Min(SepPositions(s)) + 2, Len(s))

\* C8: the text of every heading block is what follows the first "# " of
\* the escaped source of its cell.
C8_TextAfterFirstSeparator ==
    \A p \in 1..Len(html_output) :
        html_output[p].kind = "markdown-heading" =>
            html_output[p].text = after_first(escape(notebook[html_output[p].cell].source))

AtOutput == pc = "r_output" /\ oi < Len(notebook[ci].outputs)
AtOutputsEnd == pc = "r_output" /\ oi = Len(notebook[ci].outputs)
CurOutput == notebook[ci].outputs[oi + 1]

\* one step of the renderer, as C7 describes it
C7_Step ==
    LET flushed == Cardinality(OutPositions(html_output')) >
                       Cardinality(OutPositions(html_output))
        pending == IF AtOutput
                   THEN HandleStdout(HandlePlain(Locals, CurOutput, ci, oi + 1),
                                     CurOutput, ci, oi + 1).aggregated_output
                   ELSE aggregated_output
        n == Len(html_output)
    IN  /\ flushed <=> /\ pending # <<>>
                       /\ \/ AtOutput /\ IsImage(CurOutput)
                          \/ AtOutputsEnd
        /\ flushed =>
              /\ aggregated_output' = <<>>
              /\ Len(html_output') = n + (IF AtOutputsEnd THEN 1 ELSE 2)
              /\ html_output'[n + 1] = OutBlock(pending, ci)
              /\ SubSeq(html_output', 1, n) = html_output
              /\ AtOutput => html_output'[n + 2].kind \in
                                 {"output-img-base64", "output-img-file"}
        /\ (aggregated_output # <<>> /\ aggregated_output' = <<>>) => flushed
        /\ (AtOutput /\ IsError(CurOutput)) =>
              /\ aggregated_output' = aggregated_output
              /\ html_output' = Append(html_output,
                     ErrorBlock(join(CurOutput.traceback), ci, oi + 1))

\* text that precedes an error output in its cell is emitted after the error
\* block, unless an image came between them
C7_Order ==
    \A p \in OutPositions(html_output) :
        \A q \in 1..Len(html_output) :
            LET B == html_output[p]
                E == html_output[q]
            IN  (E.kind = "output-error" /\ E.cell = B.cell) =>
                    \A k \in 1..Len(B.entries) :
                        B.entries[k].out < E.out =>
                            IF \E i \in (B.entries[k].out)..(E.out - 1) :
                                   IsImage(notebook[B.cell].outputs[i])
                            THEN p < q
                            ELSE q < p

\* C7: the buffer is flushed as an "Out:" block exactly before an image (when
\* non-empty) and after the cell's last output (when non-empty); an error
\* output appends its own block and leaves the buffer alone, so pending text
\* that precedes it is emitted after it unless an image came between.
C7_FlushPoints == [][C7_Step /\ C7_Order']_vars

C7_Witness ==
    \E p \in OutPositions(html_output) :
        \E q \in 1..(p - 1) :
            /\ html_output[q].kind = "output-error"
            /\ html_output[q].cell = html_output[p].cell
            /\ \E k \in 1..Len(html_output[p].entries) :
                   html_output[p].entries[k].out < html_output[q].out

\* the outputs whose handling is over
Handled(c, o) ==
    /\ c \in 1..ci
    /\ notebook[c].cell_type = "code"
    /\ o \in 1..Len(notebook[c].outputs)
    /\ (c = ci /\ pc = "r_output") => o <= oi

TextOf(output) == IF IsPlain(output) THEN output.data["text/plain"] ELSE output.text

\* the places (block, entry) that hold the text of output o of cell c;
\* block 0 is the buffer
Holders(c, o) ==
    UNION {{<<p, k>> : k \in {j \in 1..Len(html_output[p].entries) :
                                  /\ html_output[p].entries[j].cell = c
                                  /\ html_output[p].entries[j].out = o}} :
              p \in OutPositions(html_output)}
    \cup
    {<<0, k>> : k \in {j \in 1..Len(aggregated_output) :
                          /\ aggregated_output[j].cell = c
                          /\ aggregated_output[j].out = o}}

CodePositions(h) == {p \in 1..Len(h) : h[p].kind = "code-cell"}

C10_Buffer ==
    /\ pc \in {"r_cell", "done"} => aggregated_output = <<>>
    /\ \A p \in OutPositions(html_output) :
          LET B == html_output[p]
              before == {q \in CodePositions(html_output) : q < p}
          IN  /\ \A k \in 1..Len(B.entries) : B.entries[k].cell = B.cell
              /\ before # {}
              /\ html_output[Max(before)].cell = B.cell
    /\ \A c \in 1..Len(notebook) :
          \A o \in 1..Len(notebook[c].outputs) :
              LET output == notebook[c].outputs[o]
              IN  Handled(c, o) =>
                    /\ Cardinality(Holders(c, o)) =
                           (IF IsPlain(output) \/ IsStdout(output) THEN 1 ELSE 0)
                    /\ \A h \in Holders(c, o) :
                          /\ pc \in {"r_cell", "done"} => h[1] # 0
                          /\ h[1] # 0 =>
                                html_output[h[1]].entries[h[2]].text =
                                    escape(TextOf(output))

----------------------------------------------------------------------------
(* html_to_hierarchical_json, lines 33-63.  The parsed document is the     *)
(* sequence of its elements in document order; an element has its tag      *)
(* name, the position of its parent element (0 at top level) and the text  *)
(* inside it.  The markup str(element) is named by the element's position. *)

Element(name, parent, text) == [name |-> name, parent |-> parent, text |-> text]

HeadingDigits == {"1", "2", "3", "4", "5", "6"}

DigitChars == <<"0", "1", "2", "3", "4", "5", "6", "7", "8", "9">>

\* int(c) for a digit character
DigitValue(c) == (CHOOSE d \in 1..10 : DigitChars[d] = c) - 1

\* line 41: re.compile(r'h[1-6]') as find_all applies it (a search)
HeadingSearch(name) ==
    \E i \in 1..(Len(name) - 1) : name[i] = "h" /\ name[i + 1] \in HeadingDigits

\* line 46: re.match(r'h[1-6]', name)
HeadingMatch(name) ==
    Len(name) >= 2 /\ name[1] = "h" /\ name[2] \in HeadingDigits

Positions(sp) == [i \in 1..Len(sp) |-> i]

\* line 41: soup.find_all(...), in document order
find_all(sp) == SelectSeq(Positions(sp), LAMBDA i : HeadingSearch(sp[i].name))

\* line 45: tag.find_next_siblings()
find_next_siblings(sp, t) ==
    SelectSeq(Positions(sp), LAMBDA i : i > t /\ sp[i].parent = sp[t].parent)

\* line 42
TagLevel(tag) == DigitValue(tag.name[2])

\* line 43: tag.get_text(strip=True)
TagTitle(tag) == strip(tag.text)

\* lines 44-47
Contents(sp, t) ==
    <<t>> \o SelectSeq(find_next_siblings(sp, t),
                       LAMBDA i : ~HeadingMatch(sp[i].name))

NoSections == [k \in {} |-> 0]

\* line 48
NewSection(contents) ==
    [contents |-> contents, has_sections |-> FALSE, sections |-> NoSections]

\* a pop that leaves a heading of the same level on the stack
RECURSIVE PopStack_Strict(_, _)
PopStack_Strict(st, level) ==
    IF st # <<>> /\ st[Len(st)][2] > level
    THEN PopStack_Strict(SubSeq(st, 1, Len(st) - 1), level)
    ELSE st

\* lines 50-51
RECURSIVE PopStack(_, _)
PopStack(st, level) ==
    IF st # <<>> /\ st[Len(st)][2] >= level
    THEN PopStack(SubSeq(st, 1, Len(st) - 1), level)
    ELSE st

\* a parent taken from the bottom of the stack
Parent_Bottom(st) == st[1][1]

\* line 54
Parent(st) == st[Len(st)][1]

\* lines 41-61: the body of the heading loop for one heading
HeadingStep ==
    /\ pc = "h_tag"
    /\ ti < Len(tags)
    /\ LET t == tags[ti + 1]
           level == TagLevel(soup[t])
           title == TagTitle(soup[t])
           id == Len(sections) + 1
           section == NewSection(Contents(soup, t))
           st == PopStack(stack, level)
       IN  /\ IF st # <<>>
              THEN /\ sections' = Append(
                          [sections EXCEPT
                              ![Parent(st)].has_sections = TRUE,
                              ![Parent(st)].sections = (title :> id) @@ @],
                          section)
                   /\ UNCHANGED hierarchy
              ELSE /\ hierarchy' = (title :> id) @@ hierarchy
                   /\ sections' = Append(sections, section)
           /\ stack' = Append(st, <<id, level>>)
    /\ ti' = ti + 1
    /\ UNCHANGED <<soup, tags, pc, disk>>
    /\ UNCHANGED driverVars
    /\ UNCHANGED renderVars

\* line 63
JsonReturn ==
    /\ pc = "h_tag"
    /\ ti = Len(tags)
    /\ pc' = IF fi = 0 THEN "done" ELSE "write_json"
    /\ UNCHANGED disk
    /\ UNCHANGED jsonVars
    /\ UNCHANGED driverVars
    /\ UNCHANGED renderVars

NextHier == HeadingStep \/ JsonReturn

----------------------------------------------------------------------------
(* Inputs of a direct call of html_to_hierarchical_json: documents of      *)
(* headings, paragraphs and divs.  shape[i] is 1..6 for a heading of that  *)
(* level, 0 for a paragraph and 7 for a div; with nest, the elements that  *)
(* follow a div are its children; with dup, all headings have one title.   *)

Letters == <<"A", "B", "C", "D", "E", "F", "G", "H">>

ShapeName(k) ==
    IF k = 0 THEN <<"p">>
    ELSE IF k = 7 THEN <<"d", "i", "v">>
    ELSE <<"h", DigitChars[k + 1]>>

MkSoup(shape, nest, dup) ==
    [i \in 1..Len(shape) |->
        LET divs == {j \in 1..(i - 1) : shape[j] = 7}
        IN  Element(ShapeName(shape[i]),
                    IF nest /\ shape[i] # 7 /\ divs # {} THEN Max(divs) ELSE 0,
                    <<"\n", "\t", IF dup THEN "A" ELSE Letters[((i - 1) % Len(Letters)) + 1], "\n">>)]

Soups ==
    {MkSoup(shape, nest, dup) :
        shape \in UNION {[1..n -> 0..7] : n \in 0..MaxElems},
        nest \in BOOLEAN, dup \in BOOLEAN}

\* the state after lines 37-39
InitHier ==
    /\ listing = <<>>
    /\ use_base64 = FALSE
    /\ write_html = FALSE
    /\ fi = 0
    /\ pc = "h_tag"
    /\ disk = {}
    /\ executed = <<>>
    /\ notebook = <<>>
    /\ filename = 1
    /\ ci = 0
    /\ oi = 0
    /\ html_output = <<>>
    /\ aggregated_output = <<>>
    /\ fig_id = 0
    /\ soup \in Soups
    /\ tags = find_all(soup)
    /\ ti = 0
    /\ hierarchy = NoSections
    /\ sections = <<>>
    /\ stack = <<>>

SpecHier == InitHier /\ [][NextHier]_vars

----------------------------------------------------------------------------
(* Properties of html_to_hierarchical_json.                                *)

Level(j) == TagLevel(soup[tags[j]])
Title(j) == TagTitle(soup[tags[j]])

DistinctTitles == \A i, j \in 1..Len(tags) : i # j => Title(i) # Title(j)

\* the mappings that hold section j under its title; 0 is the root mapping
StoredIn(j) ==
    {c \in 1..Len(sections) :
        /\ Title(j) \in DOMAIN sections[c].sections
        /\ sections[c].sections[Title(j)] = j}
    \cup (IF Title(j) \in DOMAIN hierarchy /\ hierarchy[Title(j)] = j
          THEN {0} ELSE {})

Lower(j) == {i \in 1..(j - 1) : Level(i) < Level(j)}

\* C3: with distinct titles, every processed heading is stored in the
\* 'sections' of the nearest preceding heading of strictly lower level, and
\* in the root mapping when no preceding heading has a lower level.
C3_NearestLowerParent ==
    (pc \in {"h_tag", "done"} /\ DistinctTitles) =>
        \A j \in 1..ti :
            StoredIn(j) = {IF Lower(j) = {} THEN 0 ELSE Max(Lower(j))}

C3_Witness ==
    /\ pc = "done"
    /\ DistinctTitles
    /\ [j \in 1..Len(tags) |-> Level(j)] = <<1, 2, 3, 2>>
    /\ StoredIn(2) = {1} /\ StoredIn(3) = {2} /\ StoredIn(4) = {1}

\* the siblings after element t and before the next heading among them
UpToNextHeading(sp, t) ==
    LET sibs == find_next_siblings(sp, t)
        heads == {k \in 1..Len(sibs) : HeadingMatch(sp[sibs[k]].name)}
    IN  IF heads = {} THEN sibs ELSE SubSeq(sibs, 1, Min(heads) - 1)

\* C4: the contents of every section is its heading followed by exactly the
\* siblings that come after the heading and before the next sibling heading.
C4_ContentsUpToNextHeading ==
    \A j \in 1..Len(sections) :
        sections[j].contents = <<tags[j]>> \o UpToNextHeading(soup, tags[j])

----------------------------------------------------------------------------
(* convert_notebooks_to_html, lines 237-281, with execute_notebook and the *)
(* parse of the rendered markup.                                           *)

Entities ==
    <<<<"&", <<"&", "a", "m", "p", ";">>>>,
      <<"<", <<"&", "l", "t", ";">>>>,
      <<">", <<"&", "g", "t", ";">>>>,
      <<"\"", <<"&", "q", "u", "o", "t", ";">>>>,
      <<"'", <<"&", "#", "x", "2", "7", ";">>>>>>

StartsWith(s, prefix) ==
    Len(s) >= Len(prefix) /\ SubSeq(s, 1, Len(prefix)) = prefix

\* the parser's decoding of character references in text
RECURSIVE unescape(_)
unescape(s) ==
    IF s = <<>> THEN <<>>
    ELSE IF \E e \in 1..Len(Entities) : StartsWith(s, Entities[e][2])
         THEN LET e == CHOOSE k \in 1..Len(Entities) : StartsWith(s, Entities[k][2])
              IN  <<Entities[e][1]>> \o
                  unescape(SubSeq(s, Len(Entities[e][2]) + 1, Len(s)))
         ELSE <<Head(s)>> \o unescape(Tail(s))

\* str(n) as characters
DigitString(n) == [i \in 1..Len(Digits(n)) |-> DigitChars[Digits(n)[i] + 1]]

Div == <<"d", "i", "v">>

\* the elements of one block's template, the outer div at position d
BlockElements(b, d) ==
    <<Element(Div, 0, IF b.kind = "markdown"
                      THEN <<"\n", "\t">> \o unescape(b.text) \o <<"\n">>
                      ELSE <<>>)>> \o
    (CASE b.kind = "code-cell" ->
              <<Element(<<"c", "o", "d", "e">>, d, unescape(b.text))>>
       [] b.kind = "output-text" ->
              <<Element(Div, d, <<"\n", "\t", "O", "u", "t", ":", "\n">>),
                Element(Div, d, unescape(b.text) \o <<"\n", "\t">>)>>
       [] b.kind \in {"output-img-base64", "output-img-file"} ->
              <<Element(<<"i", "m", "g">>, d, <<>>)>>
       [] b.kind = "output-error" ->
              <<Element(<<"p", "r", "e">>, d, unescape(b.text))>>
       [] b.kind = "markdown-heading" ->
              <<Element(<<"h">> \o DigitString(b.level), d,
                        <<"\n", "\t", "\t">> \o unescape(b.text) \o <<"\n", "\t">>)>>
       [] OTHER -> <<>>)

\* line 37: BeautifulSoup(html, 'html.parser') of the joined blocks, for
\* blocks whose interpolated text holds no raw '<' or '>'
RECURSIVE ParseFrom(_, _)
ParseFrom(blocks, acc) ==
    IF blocks = <<>> THEN acc
    ELSE ParseFrom(Tail(blocks), acc \o BlockElements(Head(blocks), Len(acc) + 1))

Parse(blocks) == ParseFrom(blocks, <<>>)

File(name, ext, raises, cells) ==
    [name |-> name, ext |-> ext, raises |-> raises, cells |-> cells]

\* lines 247-250: the next file is a notebook
DriverNextNotebook ==
    /\ pc = "listdir"
    /\ fi < Len(listing)
    /\ listing[fi + 1].ext = ".ipynb"
    /\ fi' = fi + 1
    /\ pc' = "execute"
    /\ UNCHANGED <<listing, use_base64, write_html, executed, disk>>
    /\ UNCHANGED renderVars
    /\ UNCHANGED jsonVars

\* lines 247-249: the next file is not a notebook
DriverSkipFile ==
    /\ pc = "listdir"
    /\ fi < Len(listing)
    /\ listing[fi + 1].ext # ".ipynb"
    /\ fi' = fi + 1
    /\ UNCHANGED <<listing, use_base64, write_html, executed, disk, pc>>
    /\ UNCHANGED renderVars
    /\ UNCHANGED jsonVars

\* line 247: the listing is exhausted
DriverEnd ==
    /\ pc = "listdir"
    /\ fi = Len(listing)
    /\ pc' = "done"
    /\ UNCHANGED disk
    /\ UNCHANGED driverVars
    /\ UNCHANGED renderVars
    /\ UNCHANGED jsonVars

\* lines 251, 12-22: execute_notebook returns the executed notebook
ExecuteOk ==
    /\ pc = "execute"
    /\ ~listing[fi].raises
    /\ notebook' = listing[fi].cells
    /\ filename' = listing[fi].name
    /\ executed' = Append(executed, listing[fi].name)
    /\ pc' = "call_extract"
    /\ UNCHANGED <<listing, use_base64, write_html, fi, disk>>
    /\ UNCHANGED <<ci, oi, html_output, aggregated_output, fig_id>>
    /\ UNCHANGED jsonVars

\* lines 251, 19-21: a cell raises in ep.preprocess; nothing on the way up
\* (lines 247-281, 285-296) catches it
ExecuteRaises ==
    /\ pc = "execute"
    /\ listing[fi].raises
    /\ pc' = "raised"
    /\ UNCHANGED disk
    /\ UNCHANGED driverVars
    /\ UNCHANGED renderVars
    /\ UNCHANGED jsonVars

\* lines 260-267
WriteHtml ==
    /\ pc = "write_html"
    /\ disk' = IF write_html
               THEN disk \cup {DiskFile("html", filename, <<>>)}
               ELSE disk
    /\ pc' = "call_json"
    /\ UNCHANGED driverVars
    /\ UNCHANGED renderVars
    /\ UNCHANGED jsonVars

\* lines 269-272, 37-41
JsonEntry ==
    /\ pc = "call_json"
    /\ soup' = Parse(html_output)
    /\ tags' = find_all(Parse(html_output))
    /\ hierarchy' = NoSections
    /\ sections' = <<>>
    /\ stack' = <<>>
    /\ ti' = 0
    /\ pc' = "h_tag"
    /\ UNCHANGED disk
    /\ UNCHANGED driverVars
    /\ UNCHANGED renderVars

\* lines 274-281
WriteJson ==
    /\ pc = "write_json"
    /\ disk' = disk \cup {DiskFile("json", filename, <<>>)}
    /\ pc' = "listdir"
    /\ UNCHANGED driverVars
    /\ UNCHANGED renderVars
    /\ UNCHANGED jsonVars

Next ==
    \/ DriverNextNotebook
    \/ DriverSkipFile
    \/ DriverEnd
    \/ ExecuteOk
    \/ ExecuteRaises
    \/ ExtractEntry
    \/ RenderCodeCell
    \/ RenderOutput
    \/ RenderOutputsEnd
    \/ RenderMarkdownCell
    \/ ExtractReturn
    \/ WriteHtml
    \/ JsonEntry
    \/ HeadingStep
    \/ JsonReturn
    \/ WriteJson

----------------------------------------------------------------------------
(* Directories handed to convert_notebooks_to_html.  A file is named by    *)
(* its position in the listing.                                            *)

SmallFiles(i) ==
    {File(i, ".txt", FALSE, <<>>),
     File(i, ".ipynb", TRUE, <<CodeCell(<<"z">>, <<>>)>>),
     File(i, ".ipynb", FALSE,
          <<MarkdownCell(<<"#", " ", "a">>),
            CodeCell(<<"p">>, <<StreamOutput("stdout", <<"b">>), PngOutput>>)>>),
     File(i, ".ipynb", FALSE, <<MarkdownCell(<<"a">>)>>)}

\* a few small files, some of them failing notebooks
SmallListings ==
    UNION {{l \in [1..n -> UNION {SmallFiles(i) : i \in 1..n}] :
               \A i \in 1..n : l[i].name = i} : n \in 0..MaxFiles}

TitleAlphabet == {"a", "'", "\"", "&", "<", ">"}

Titles == Strings(TitleAlphabet, 1, MaxTitleLen)

\* N '#' characters, one space, then T
HeadingSource(N, T) == [i \in 1..N |-> "#"] \o <<" ">> \o T

\* one notebook of one heading cell
HeadingListings ==
    {<<File(1, ".ipynb", FALSE, <<MarkdownCell(HeadingSource(N, T))>>)>> :
        N \in 1..6, T \in Titles}

FigCells ==
    {CodeCell(<<"p">>, [i \in 1..n |-> PngOutput]) : n \in {1, MaxImages}}

FigNotebooks == UNION {[1..n -> FigCells] : n \in 1..MaxFigCells}

\* two notebooks of images
FigListings ==
    {<<File(1, ".ipynb", FALSE, a), File(2, ".ipynb", FALSE, b)>> :
        a \in FigNotebooks, b \in FigNotebooks}

Init ==
    /\ listing \in SmallListings \cup HeadingListings \cup FigListings
    /\ use_base64 \in BOOLEAN
    /\ write_html \in BOOLEAN
    /\ fi = 0
    /\ pc = "listdir"
    /\ disk = {}
    /\ executed = <<>>
    /\ notebook = <<>>
    /\ filename = 0
    /\ ci = 0
    /\ oi = 0
    /\ html_output = <<>>
    /\ aggregated_output = <<>>
    /\ fig_id = 0
    /\ soup = <<>>
    /\ tags = <<>>
    /\ ti = 0
    /\ hierarchy = NoSections
    /\ sections = <<>>
    /\ stack = <<>>

Spec == Init /\ [][Next]_vars

----------------------------------------------------------------------------
(* Properties of convert_notebooks_to_html.                                *)

\* C2: once the run is over, every notebook listed after a notebook whose
\* execution failed has been executed and has its JSON file written.
C2_LaterNotebooksConverted ==
    pc \in {"done", "raised"} =>
        \A i, j \in 1..Len(listing) :
            (/\ i < j
             /\ listing[i].ext = ".ipynb" /\ listing[i].raises
             /\ listing[j].ext = ".ipynb" /\ ~listing[j].raises) =>
                /\ \E k \in 1..Len(executed) : executed[k] = listing[j].name
                /\ DiskFile("json", listing[j].name, <<>>) \in disk

\* C5: a notebook of one markdown cell "N #'s, a space, T" is rendered as a
\* heading of level N and extracted as one section of level N titled T.
C5_HeadingRoundTrip ==
    \A N \in 1..6 :
        \A T \in Titles :
            (pc = "write_json" /\ notebook = <<MarkdownCell(HeadingSource(N, T))>>) =>
                /\ html_output[1].kind = "markdown-heading"
                /\ html_output[1].level = N
                /\ Len(tags) = 1
                /\ Level(1) = N
                /\ Title(1) = T
                /\ StoredIn(1) = {0}

ImgPositions(h) == {p \in 1..Len(h) : h[p].kind = "output-img-file"}

\* the image/png outputs of a notebook, as <<cell, output>>, in document order
RECURSIVE PngOutputs(_, _)
PngOutputs(nb, c) ==
    IF c > Len(nb) THEN <<>>
    ELSE SelectSeq([o \in 1..Len(nb[c].outputs) |-> <<c, o>>],
                   LAMBDA x : IsImage(nb[c].outputs[x[2]]))
         \o PngOutputs(nb, c + 1)

Rendering == pc \in {"r_cell", "r_output", "write_html"}

\* C6: without base64, the k-th image/png output of the notebook, in
\* document order, is saved and referenced as fig_0k.png for k <= 10 and as
\* fig_k.png from k = 11 on, counting from 1 in every notebook, and no two
\* images of a notebook share a file name.
C6_FigureNumbering ==
    (Rendering /\ ~use_base64) =>
        LET imgs == ImgPositions(html_output)
            pngs == PngOutputs(notebook, 1)
        IN  /\ \A p \in imgs :
                  LET k == Cardinality({q \in imgs : q <= p})
                      b == html_output[p]
                  IN  /\ k <= Len(pngs)
                      /\ <<b.cell, b.out>> = pngs[k]
                      /\ \/ k \in 1..10 /\ b.file = <<0>> \o Digits(k)
                         \/ k >= 11 /\ b.file = Digits(k)
                      /\ b.folder = filename
                      /\ DiskFile("png", filename, b.file) \in disk
            /\ \A p, q \in imgs : p # q => html_output[p].file # html_output[q].file
            /\ pc = "write_html" => Cardinality(imgs) = Len(pngs)
            /\ Cardinality({f \in disk : f.kind = "png" /\ f.stem = filename}) =
                   Cardinality(imgs)

C6_Witness ==
    /\ Rendering /\ ~use_base64
    /\ filename = 2
    /\ DiskFile("png", 1, <<1, 1>>) \in disk
    /\ DiskFile("png", 1, <<0, 1, 0>>) \in disk
    /\ \E p \in ImgPositions(html_output) : html_output[p].file = <<0, 1>>
    /\ \E p \in ImgPositions(html_output) : html_output[p].file = <<1, 1>>

====
